---------------------------- MODULE Spec2Model ----------------------------
(***************************************************************************)
(* Hom spaces of quiver representations: sage/quivers/homspace.py.         *)
(*                                                                         *)
(* QuiverHomSpaceFactory caches one QuiverHomSpace_generic per key; the    *)
(* constructor of QuiverHomSpace_generic writes the commutativity          *)
(* equations f_s * N_e = M_e * f_t into a coefficient matrix and keeps its *)
(* kernel as _space.  Matrices are over the prime fields GF(2) and GF(3);  *)
(* a matrix is a sequence of rows, a vector a sequence of field elements.  *)
(***************************************************************************)
EXTENDS Integers, Sequences, FiniteSets, TLC

VARIABLES dom, cod, cache, objs, calls, last

vars == <<dom, cod, cache, objs, calls, last>>

---------------------------------------------------------------------------
(* Bounds of the model.                                                    *)

\* number of factory calls in one behaviour
MaxCalls == 2

\* the base rings: GF(p) is written p
Rings == {2, 3}

\* largest dimension of the space at one vertex, per base ring
DimCap == [p \in Rings |-> IF p = 2 THEN 2 ELSE 1]

\* largest total dimension of a representation, per base ring
TotalCap == [p \in Rings |-> IF p = 2 THEN 3 ELSE 2]

---------------------------------------------------------------------------
(* Quivers: directed graphs with labelled edges, loops and multiple edges  *)
(* allowed.  "L" is one vertex with a loop, "K" is 1 ==> 2 with two        *)
(* parallel edges (the quiver of the doctests), "C" is the cycle           *)
(* 1 -> 2 -> 1, and "A" is the single edge 1 -> 2, used for the            *)
(* representations with a basis of paths.                                  *)

Quivers == {"L", "K", "C"}

Vertices(q) == IF q = "L" THEN <<1>> ELSE <<1, 2>>

Edges(q) ==
    IF q = "L" THEN << <<1, 1, "a">> >>
    ELSE IF q = "K" THEN << <<1, 2, "a">>, <<1, 2, "b">> >>
    ELSE IF q = "A" THEN << <<1, 2, "a">> >>
    ELSE << <<1, 2, "a">>, <<2, 1, "b">> >>

\* an edge from a vertex to itself
HasLoop(q) == \E n \in 1..Len(Edges(q)) : Edges(q)[n][1] = Edges(q)[n][2]

\* list.index: 0-based position of the first occurrence of v in verts
Index(verts, v) == (CHOOSE i \in 1..Len(verts) :
                       verts[i] = v /\ \A j \in 1..(i-1) : verts[j] # v) - 1

---------------------------------------------------------------------------
(* Field and matrix arithmetic over GF(p).                                 *)

F(p) == 0..(p-1)

Neg(p, x) == (p - x) % p

Mats(p, r, c) == [1..r -> [1..c -> F(p)]]

Vectors(p, n) == [1..n -> F(p)]

ZeroVector(n) == [i \in 1..n |-> 0]

RECURSIVE SumTo(_, _)
\* f[1] + ... + f[n]
SumTo(f, n) == IF n = 0 THEN 0 ELSE SumTo(f, n-1) + f[n]

\* the r x c product A * B of an r x m and an m x c matrix over GF(p)
MatMul(p, A, B, r, m, c) ==
    [i \in 1..r |-> [j \in 1..c |->
        SumTo([k \in 1..m |-> A[i][k] * B[k][j]], m) % p]]

\* Matrix(n, n, one): the n x n scalar matrix
ScalarMatrix(n, one) == [i \in 1..n |-> [j \in 1..n |-> IF i = j THEN one ELSE 0]]

ZeroMatrix(r, c) == [i \in 1..r |-> [j \in 1..c |-> 0]]

---------------------------------------------------------------------------
(* Representations: a space at every vertex (its dimension) and a matrix   *)
(* at every edge.  Representations come from a unique factory: equal data  *)
(* is the same object.                                                     *)

DimVectors(q, p) ==
    {d \in [1..Len(Vertices(q)) -> 0..DimCap[p]] :
        SumTo(d, Len(Vertices(q))) <= TotalCap[p]}

RECURSIVE MapFamilies(_, _, _, _)
\* all choices of a matrix for each of the first n edges
MapFamilies(q, p, d, n) ==
    IF n = 0 THEN {<<>>}
    ELSE {Append(ms, x) : ms \in MapFamilies(q, p, d, n-1),
                          x \in Mats(p, d[Edges(q)[n][1]], d[Edges(q)[n][2]])}

RepsOver(q, p, left) ==
    UNION {{[_quiver |-> q, _base_ring |-> p, _spaces |-> d, _maps |-> ms,
             left |-> left] : ms \in MapFamilies(q, p, d, Len(Edges(q)))}
           : d \in DimVectors(q, p)}

\* X.nrows(), X.ncols() of the matrix of edge number n of representation M
NRows(M, n) == M._spaces[Edges(M._quiver)[n][1]]
NCols(M, n) == M._spaces[Edges(M._quiver)[n][2]]

---------------------------------------------------------------------------
(* Representations with a basis of paths: the span of a list of paths that *)
(* is closed under right multiplication by edges.  The space at vertex v   *)
(* is spanned by the paths that end at v, an edge acts on the right by     *)
(* concatenation, and the representation is a left module when the list is *)
(* closed under left multiplication by edges as well.  A path is written   *)
(* <<start, end, labels>>.                                                 *)

\* the trivial path at v, written (v, v) in the code
TrivialPath(v) == <<v, v, << >> >>

\* the path of length one along the edge e = (s, t, label)
EdgePath(e) == <<e[1], e[2], <<e[3]>> >>

\* x * y is a path when x ends where y starts
Composable(x, y) == x[2] = y[1]

Concat(x, y) == <<x[1], y[2], x[3] \o y[3]>>

InSeq(seq, x) == \E i \in 1..Len(seq) : seq[i] = x

RECURSIVE EndingAmong(_, _, _)
\* the paths among the first n of the basis that end at v
EndingAmong(basis, v, n) ==
    IF n = 0 THEN << >>
    ELSE IF basis[n][2] = v THEN Append(EndingAmong(basis, v, n - 1), basis[n])
    ELSE EndingAmong(basis, v, n - 1)

\* the paths of the basis that end at v, in the order of the basis
EndingAt(basis, v) == EndingAmong(basis, v, Len(basis))

\* the matrix of the right action of edge number n on the span of basis
RightEdgeMatrix(q, basis, n) ==
    LET e    == Edges(q)[n]
        from == EndingAt(basis, e[1])
        to   == EndingAt(basis, e[2])
    IN  [i \in 1..Len(from) |-> [j \in 1..Len(to) |->
            IF to[j] = Concat(from[i], EdgePath(e)) THEN 1 ELSE 0]]

\* is_left_module(): left multiplication by an edge stays in the basis
ClosedOnLeft(q, basis) ==
    \A n \in 1..Len(Edges(q)), i \in 1..Len(basis) :
        Composable(EdgePath(Edges(q)[n]), basis[i])
            => InSeq(basis, Concat(EdgePath(Edges(q)[n]), basis[i]))

\* the representation over GF(p) with the given basis of paths
PathBasisRep(q, p, basis) ==
    [_quiver    |-> q,
     _base_ring |-> p,
     _spaces    |-> [v \in 1..Len(Vertices(q)) |-> Len(EndingAt(basis, Vertices(q)[v]))],
     _maps      |-> [n \in 1..Len(Edges(q)) |-> RightEdgeMatrix(q, basis, n)],
     left       |-> ClosedOnLeft(q, basis),
     basis      |-> basis]

RECURSIVE EdgePathsAmong(_, _, _)
\* the edges among the first n of q that start at v, as paths
EdgePathsAmong(q, v, n) ==
    IF n = 0 THEN << >>
    ELSE IF Edges(q)[n][1] = v
         THEN Append(EdgePathsAmong(q, v, n - 1), EdgePath(Edges(q)[n]))
    ELSE EdgePathsAmong(q, v, n - 1)

\* the edges of q that start at v, as paths
EdgePathsFrom(q, v) == EdgePathsAmong(q, v, Len(Edges(q)))

\* the paths that start at v in a quiver whose paths have length at most
\* one ("A" and "K"): the basis of the projective P(v)
PathsFrom(q, v) == <<TrivialPath(v)>> \o EdgePathsFrom(q, v)

\* Q.P(GF(p), v) and Q.free_module(GF(p))
Projective(q, p, v) == PathBasisRep(q, p, PathsFrom(q, v))
FreeModule(q, p) == PathBasisRep(q, p, PathsFrom(q, 1) \o PathsFrom(q, 2))

\* left_edge_action(path, y) at vertex v: the matrix of y |-> path * y on
\* the space of N at v
LeftEdgeAction(N, path, v) ==
    LET b == EndingAt(N.basis, v)
    IN  [i \in 1..Len(b) |-> [j \in 1..Len(b) |->
            IF Composable(path, b[i]) /\ b[j] = Concat(path, b[i]) THEN 1 ELSE 0]]

---------------------------------------------------------------------------
(* QuiverHomSpace_generic.__init__: the coefficient matrix and its kernel. *)

ValueError(msg) == [exc |-> "ValueError", msg |-> msg]

\* a raised exception; x is a record
IsError(x) == "exc" \in DOMAIN x

\* a returned Python list or tuple
List(l) == [list |-> l]

\* varstart after the first loop: entry 0 is 0, entry index(v) + 1 is
\* dim(M_v) * dim(N_v).  The list is 0-based in the code, 1-based here.
VarstartDims(domain, codomain) ==
    LET verts == Vertices(domain._quiver)
    IN  [i \in 1..(Len(verts) + 1) |->
            IF i = 1 THEN 0
            ELSE domain._spaces[verts[i-1]] * codomain._spaces[verts[i-1]]]

RECURSIVE Cascade(_, _)
\* for i in range(2, len(varstart)): varstart[i] += varstart[i-1]
\* (i is the 0-based index of the code)
Cascade(varstart, i) ==
    IF i >= Len(varstart) THEN varstart
    ELSE Cascade([varstart EXCEPT ![i+1] = varstart[i+1] + varstart[i]], i + 1)

Varstart(domain, codomain) == Cascade(VarstartDims(domain, codomain), 2)

\* varstart[i] of the code, i 0-based
VarstartAt(varstart, i) == varstart[i + 1]

RECURSIVE EqsFrom(_, _, _)
\* eqs += dim(M_e[0]) * dim(N_e[1]) over the edges n, n+1, ...
EqsFrom(domain, codomain, n) ==
    IF n > Len(Edges(domain._quiver)) THEN 0
    ELSE NRows(domain, n) * NCols(codomain, n) + EqsFrom(domain, codomain, n + 1)

Eqs(domain, codomain) == EqsFrom(domain, codomain, 1)

\* Matrix(base_ring, nrows, ncols): the zero matrix, indexed from 0
NewCoefMat(nrows, ncols) == [r \in 0..(nrows-1) |-> [c \in 0..(ncols-1) |-> 0]]

\* coef_mat[r, c] = v
SetEntry(mat, r, c, v) == [mat EXCEPT ![r][c] = v]

\* X[i, k], Y[k, j] of the code (0-based) for the matrix of edge number n
Entry(M, n, i, k) == M._maps[n][i+1][k+1]

RECURSIVE FillY(_, _, _, _, _, _, _)
\* for k in range(0, Y.nrows()):
\*     coef_mat[varstart[verts.index(e[0])] + i*Y.nrows() + k, eqn] = Y[k, j]
FillY(st, domain, codomain, n, i, j, k) ==
    IF k >= NRows(codomain, n) THEN st
    ELSE LET q    == domain._quiver
             e    == Edges(q)[n]
             vs   == Varstart(domain, codomain)
             row  == VarstartAt(vs, Index(Vertices(q), e[1]))
                       + i * NRows(codomain, n) + k
         IN  FillY([st EXCEPT !.mat = SetEntry(st.mat, row, st.eqn,
                                               Entry(codomain, n, k, j))],
                   domain, codomain, n, i, j, k + 1)

\* the coefficient written for X[i, k]
MinusX(domain, n, i, k) == Neg(domain._base_ring, Entry(domain, n, i, k))

RECURSIVE FillX(_, _, _, _, _, _, _)
\* for k in range(0, X.ncols()):
\*     coef_mat[varstart[verts.index(e[1])] + k*Y.ncols() + j, eqn] = -X[i, k]
FillX(st, domain, codomain, n, i, j, k) ==
    IF k >= NCols(domain, n) THEN st
    ELSE LET q    == domain._quiver
             e    == Edges(q)[n]
             vs   == Varstart(domain, codomain)
             row  == VarstartAt(vs, Index(Vertices(q), e[2]))
                       + k * NCols(codomain, n) + j
         IN  FillX([st EXCEPT !.mat = SetEntry(st.mat, row, st.eqn,
                                               MinusX(domain, n, i, k))],
                   domain, codomain, n, i, j, k + 1)

RECURSIVE FillJNoCount(_, _, _, _, _, _)
\* the j loop without eqn += 1
FillJNoCount(st, domain, codomain, n, i, j) ==
    IF j >= NCols(codomain, n) THEN st
    ELSE LET s1 == FillY(st, domain, codomain, n, i, j, 0)
             s2 == FillX(s1, domain, codomain, n, i, j, 0)
         IN  FillJNoCount(s2, domain, codomain, n, i, j + 1)

RECURSIVE FillJ(_, _, _, _, _, _)
\* for j in range(0, Y.ncols()): the two k loops, then eqn += 1
FillJ(st, domain, codomain, n, i, j) ==
    IF j >= NCols(codomain, n) THEN st
    ELSE LET s1 == FillY(st, domain, codomain, n, i, j, 0)
             s2 == FillX(s1, domain, codomain, n, i, j, 0)
         IN  FillJ([s2 EXCEPT !.eqn = s2.eqn + 1], domain, codomain, n, i, j + 1)

RECURSIVE FillI(_, _, _, _, _)
\* for i in range(0, X.nrows())
FillI(st, domain, codomain, n, i) ==
    IF i >= NRows(domain, n) THEN st
    ELSE FillI(FillJ(st, domain, codomain, n, i, 0), domain, codomain, n, i + 1)

RECURSIVE FillE(_, _, _, _)
\* for e in domain._quiver.edges()
FillE(st, domain, codomain, n) ==
    IF n > Len(Edges(domain._quiver)) THEN st
    ELSE FillE(FillI(st, domain, codomain, n, 0), domain, codomain, n + 1)

\* the state of the fill loop when it ends: the matrix and the counter eqn
Fill(domain, codomain) ==
    LET vs == Varstart(domain, codomain)
    IN  FillE([mat |-> NewCoefMat(vs[Len(vs)], Eqs(domain, codomain)), eqn |-> 0],
              domain, codomain, 1)

CoefMat(domain, codomain) == Fill(domain, codomain).mat

\* coef_mat.kernel(): the vectors w with w * coef_mat = 0 (rows are variables)
Kernel(p, mat, nrows, ncols) ==
    {w \in Vectors(p, nrows) :
        \A c \in 0..(ncols-1) :
            SumTo([r \in 1..nrows |-> w[r] * mat[r-1][c]], nrows) % p = 0}

\* the object the constructor leaves, or the error it raises
HomSpaceInit(domain, codomain) ==
    IF domain._quiver # codomain._quiver
    THEN ValueError("Representations are not over the same quiver.")
    ELSE IF codomain._base_ring # domain._base_ring
    THEN ValueError("Representations are not over the same base ring.")
    ELSE LET vs == Varstart(domain, codomain)
         IN  [_quiver   |-> domain._quiver,
              _domain   |-> domain,
              _codomain |-> codomain,
              _base     |-> codomain._base_ring,
              _space    |-> Kernel(codomain._base_ring, CoefMat(domain, codomain),
                                   vs[Len(vs)], Eqs(domain, codomain)),
              identity  |-> (domain = codomain)]

---------------------------------------------------------------------------
(* QuiverRepHom (sage/quivers/morphism.py): a homomorphism is held as the  *)
(* vector of the entries of its vertex matrices, ordered by vertex, then   *)
(* row, then column.  The constructor raises ValueError when the maps do   *)
(* not commute with the edge maps.                                         *)

\* m.list(): the entries of an r x c matrix, row by row
RowMajor(m, r, c) == [x \in 1..(r * c) |-> m[((x-1) \div c) + 1][((x-1) % c) + 1]]

RECURSIVE FlattenFrom(_, _, _, _)
\* vector += m.list() over the vertices number n, n+1, ...
FlattenFrom(fam, domain, codomain, n) ==
    IF n > Len(Vertices(domain._quiver)) THEN <<>>
    ELSE LET v == Vertices(domain._quiver)[n]
         IN  RowMajor(fam[v], domain._spaces[v], codomain._spaces[v])
               \o FlattenFrom(fam, domain, codomain, n + 1)

Flatten(fam, domain, codomain) == FlattenFrom(fam, domain, codomain, 1)

RECURSIVE StartOf(_, _, _)
\* number of entries of the matrices at the vertices before vertex number n
StartOf(domain, codomain, n) ==
    IF n = 1 THEN 0
    ELSE LET v == Vertices(domain._quiver)[n-1]
         IN  StartOf(domain, codomain, n - 1) + domain._spaces[v] * codomain._spaces[v]

TotalDim(domain, codomain) ==
    StartOf(domain, codomain, Len(Vertices(domain._quiver)) + 1)

\* get_matrix(v): the matrix at vertex v read back from the vector
GetMatrix(domain, codomain, vec, v) ==
    LET n == Index(Vertices(domain._quiver), v) + 1
        start == StartOf(domain, codomain, n)
    IN  [i \in 1..domain._spaces[v] |-> [j \in 1..codomain._spaces[v] |->
            vec[start + (i-1) * codomain._spaces[v] + j]]]

\* f_s * N_e = M_e * f_t at edge number n, e = (s, t, label)
CommutesAt(domain, codomain, vec, n) ==
    LET e == Edges(domain._quiver)[n]
        p == domain._base_ring
        s == e[1]
        t == e[2]
    IN  MatMul(p, GetMatrix(domain, codomain, vec, s), codomain._maps[n],
               domain._spaces[s], codomain._spaces[s], codomain._spaces[t])
          = MatMul(p, domain._maps[n], GetMatrix(domain, codomain, vec, t),
                   domain._spaces[s], domain._spaces[t], codomain._spaces[t])

Commutes(domain, codomain, vec) ==
    \A n \in 1..Len(Edges(domain._quiver)) : CommutesAt(domain, codomain, vec, n)

\* QuiverRepHom(domain, codomain, vector)
QuiverRepHom(domain, codomain, vec) ==
    IF ~Commutes(domain, codomain, vec)
    THEN ValueError("The diagram of an edge does not commute.")
    ELSE [_quiver |-> domain._quiver, _domain |-> domain, _codomain |-> codomain,
          _vector |-> vec]

\* the family of vertex matrices of a dictionary: unspecified vertices get
\* the zero map
FromDict(domain, codomain, maps) ==
    [v \in 1..Len(Vertices(domain._quiver)) |->
        IF v \in DOMAIN maps THEN maps[v]
        ELSE ZeroMatrix(domain._spaces[v], codomain._spaces[v])]

\* QuiverRepHom(domain, codomain, dict)
QuiverRepHomDict(domain, codomain, maps) ==
    QuiverRepHom(domain, codomain,
                 Flatten(FromDict(domain, codomain, maps), domain, codomain))

IsQuiverRepHom(m) == "_vector" \in DOMAIN m

RECURSIVE FamiliesUpTo(_, _, _)
\* every choice of a dim(M_v) x dim(N_v) matrix at each of the first n vertices
FamiliesUpTo(domain, codomain, n) ==
    IF n = 0 THEN {<<>>}
    ELSE {Append(fam, x) : fam \in FamiliesUpTo(domain, codomain, n - 1),
                           x \in Mats(domain._base_ring, domain._spaces[n],
                                      codomain._spaces[n])}

Families(domain, codomain) ==
    FamiliesUpTo(domain, codomain, Len(Vertices(domain._quiver)))

---------------------------------------------------------------------------
(* The free module _space (sage/modules/free_module.py): a subspace of     *)
(* GF(p)^n with its echelonized basis.                                     *)

RECURSIVE Log(_, _)
\* the d with p^d = size
Log(p, size) == IF size <= 1 THEN 0 ELSE 1 + Log(p, size \div p)

SpaceDimension(S, p) == Log(p, Cardinality(S))

\* position of the first nonzero entry of a nonzero vector
Lead(v) == CHOOSE i \in 1..Len(v) : v[i] # 0 /\ \A j \in 1..(i-1) : v[j] = 0

Pivots(S) == {Lead(v) : v \in {w \in S : \E i \in 1..Len(w) : w[i] # 0}}

\* the basis vector of the echelonized basis with pivot pv
BasisAt(S, pv) ==
    CHOOSE v \in S : /\ v[pv] = 1
                     /\ \A j \in 1..(pv-1) : v[j] = 0
                     /\ \A q \in Pivots(S) \ {pv} : v[q] = 0

RECURSIVE Sorted(_)
\* the elements of a set of numbers in increasing order
Sorted(P) ==
    IF P = {} THEN <<>>
    ELSE LET m == CHOOSE x \in P : \A y \in P : x <= y
         IN  <<m>> \o Sorted(P \ {m})

\* _space.gens(): the echelonized basis, by increasing pivot
SpaceGens(S) ==
    LET pv == Sorted(Pivots(S))
    IN  [i \in 1..Len(pv) |-> BasisAt(S, pv[i])]

\* the linear combination sum_i c[i] * gens[i] of vectors of length n
LinComb(p, c, gens, n) ==
    [j \in 1..n |-> SumTo([i \in 1..Len(gens) |-> c[i] * gens[i][j]], Len(gens)) % p]

\* _space.coordinates(v): the coordinates in the echelonized basis are the
\* entries at the pivots; a vector outside the space is an ArithmeticError
SpaceCoordinates(S, v) ==
    IF v \notin S THEN [exc |-> "ArithmeticError", msg |-> "vector is not in free module"]
    ELSE LET pv == Sorted(Pivots(S))
         IN  List([i \in 1..Len(pv) |-> v[pv[i]]])

\* _space.an_element(): the first generator, or zero in the zero space
SpaceAnElement(S, n) == IF Pivots(S) = {} THEN ZeroVector(n) ELSE SpaceGens(S)[1]

---------------------------------------------------------------------------
(* The methods of QuiverHomSpace_generic.                                  *)

None == [tag |-> "None"]
Zero == [tag |-> "int", val |-> 0]
Dict(maps) == [tag |-> "dict", val |-> maps]
EmptyDict == << >>

\* _element_constructor_ with the domain and the codomain exchanged
ElementConstructorSwapped(H, data) ==
    LET d == IF data.tag = "None" \/ (data.tag = "int" /\ data.val = 0)
             THEN EmptyDict ELSE data.val
    IN  QuiverRepHomDict(H._codomain, H._domain, d)

\* _element_constructor_(data=None)
ElementConstructor(H, data) ==
    LET d == IF data.tag = "None" \/ (data.tag = "int" /\ data.val = 0)
             THEN EmptyDict ELSE data.val
    IN  QuiverRepHomDict(H._domain, H._codomain, d)

\* __contains__ without the check of quiver, domain and codomain
ContainsVectorOnly(H, map) ==
    IF ~IsQuiverRepHom(map) THEN FALSE
    ELSE map._vector \in H._space

\* __contains__(map)
Contains(H, map) ==
    IF ~IsQuiverRepHom(map) THEN FALSE
    ELSE IF \/ H._quiver # map._quiver
            \/ H._domain # map._domain
            \/ H._codomain # map._codomain
    THEN FALSE
    ELSE map._vector \in H._space

\* _identity(): the scalar matrix 1 of size dim(M_v) at every vertex v
IdentityMaps(H) ==
    [v \in 1..Len(Vertices(H._quiver)) |-> ScalarMatrix(H._domain._spaces[v], 1)]

Identity(H) ==
    IF ~H.identity
    THEN [exc |-> "AttributeError", msg |-> "no attribute identity"]
    ELSE QuiverRepHomDict(H._domain, H._codomain, IdentityMaps(H))

\* dimension()
Dimension(H) == SpaceDimension(H._space, H._base)

\* the vectors f of gens()
GensVectors(H) == SpaceGens(H._space)

\* [QuiverRepHom(domain, codomain, f) for f in _space.gens()]; the first
\* constructor that raises ends the comprehension
GensList(H) ==
    LET g == GensVectors(H)
    IN  [i \in 1..Len(g) |-> QuiverRepHom(H._domain, H._codomain, g[i])]

Gens(H) ==
    LET l == GensList(H)
    IN  IF \E i \in 1..Len(l) : IsError(l[i])
        THEN l[CHOOSE i \in 1..Len(l) : IsError(l[i]) /\ \A j \in 1..(i-1) : ~IsError(l[j])]
        ELSE List(l)

\* coordinates taken in the ambient space instead of _space
CoordinatesAmbient(H, hom) == List(hom._vector)

\* coordinates(hom)
Coordinates(H, hom) == SpaceCoordinates(H._space, hom._vector)

\* the argument of hom(maps={}): the empty dictionary when none is given
NoArgument == [tag |-> "default"]
HomArgument(arg) == IF arg.tag = "default" THEN EmptyDict ELSE arg.val

\* hom(maps={})
Hom(H, arg) == QuiverRepHomDict(H._domain, H._codomain, HomArgument(arg))

\* an_element()
AnElement(H) ==
    QuiverRepHom(H._domain, H._codomain,
                 SpaceAnElement(H._space, TotalDim(H._domain, H._codomain)))

\* self._quiver.reverse(): every edge (s, t, label) becomes (t, s, label)
ReverseEdges(q) ==
    [n \in 1..Len(Edges(q)) |-> <<Edges(q)[n][2], Edges(q)[n][1], Edges(q)[n][3]>>]

\* base_ring(), quiver(), domain(), codomain()
BaseRing(H) == H._base
Quiver(H) == H._quiver
Domain(H) == H._domain
Codomain(H) == H._codomain

\* left_module keeping the submodule of the last vertex as _space
SelfAfterNarrowed(op, H, arg) ==
    IF op = "left_module" /\ H._codomain.left
    THEN [H EXCEPT !._space = {ZeroVector(TotalDim(H._domain, H._codomain))}]
    ELSE H

\* the attributes of self when a method returns or raises: no method
\* assigns to self
SelfAfter(op, H, arg) == H

\* a list some entry of which is a raised exception, and the first of them
HasError(seq) == \E i \in 1..Len(seq) : IsError(seq[i])
FirstError(seq) ==
    seq[CHOOSE i \in 1..Len(seq) : IsError(seq[i]) /\ \A j \in 1..(i-1) : ~IsError(seq[j])]

\* the subspace of GF(p)^n spanned by a list of vectors
Span(p, vecs, n) == {LinComb(p, c, vecs, n) : c \in Vectors(p, Len(vecs))}

\* _space.submodule(gens): the span, or ArithmeticError when a generator is
\* not in the space
Submodule(S, p, vecs, n) ==
    IF \E i \in 1..Len(vecs) : vecs[i] \notin S
    THEN [exc |-> "ArithmeticError", msg |-> "gens does not generate a submodule of self"]
    ELSE [space |-> Span(p, vecs, n)]

\* self.hom([codomain.left_edge_action(path, f(x)) for x in domain.gens()])
\* for the f with vector vec: the map x |-> path * f(x), whose matrix at v
\* is f_v times the matrix of the left action of path
LeftHom(H, path, vec) ==
    LET d   == H._domain
        c   == H._codomain
        fam == [v \in 1..Len(Vertices(H._quiver)) |->
                   MatMul(H._base, GetMatrix(d, c, vec, v), LeftEdgeAction(c, path, v),
                          d._spaces[v], c._spaces[v], c._spaces[v])]
    IN  QuiverRepHom(d, c, Flatten(fam, d, c))

\* a list of results as one result: the first exception raised, or the
\* list
CollectPlain(seq) == IF HasError(seq) THEN FirstError(seq) ELSE List(seq)

\* the same for a list of lists
Collect(seq) ==
    IF HasError(seq) THEN FirstError(seq)
    ELSE List([i \in 1..Len(seq) |-> seq[i].list])

\* im_gens at vertex v: the homs (v, v) * f for f in the list g
ImagesAt(H, g, v) ==
    CollectPlain([i \in 1..Len(g) |-> LeftHom(H, TrivialPath(v), g[i]._vector)])

\* spaces[v] = self._space.submodule(im_gens)
SpaceAt(H, ims) ==
    IF IsError(ims) THEN ims
    ELSE Submodule(H._space, H._base,
                   [i \in 1..Len(ims.list) |-> ims.list[i]._vector],
                   TotalDim(H._domain, H._codomain))

CollectSpaces(seq) ==
    IF HasError(seq) THEN FirstError(seq)
    ELSE [spaces |-> [v \in 1..Len(seq) |-> seq[v].space]]

SpacesOf(H, g) ==
    IF IsError(g) THEN g
    ELSE CollectSpaces([v \in 1..Len(Vertices(H._quiver)) |->
                           SpaceAt(H, ImagesAt(H, g.list, Vertices(H._quiver)[v]))])

\* the block "Create the spaces": spaces[v] is spanned by the (v, v) * f
\* for f in gens()
LeftModuleSpaces(H) == SpacesOf(H, Gens(H))

\* vec_im: the coordinates in spaces[s] of the hom e * hom(vec), e = (s, t, label)
RowOfImage(spaces, e, im) ==
    IF IsError(im) THEN im ELSE SpaceCoordinates(spaces[e[1]], im._vector)

RowOfHom(H, spaces, e, vec, h) ==
    IF IsError(h) THEN h ELSE RowOfImage(spaces, e, LeftHom(H, EdgePath(e), vec))

LeftModuleRow(H, spaces, e, vec) ==
    RowOfHom(H, spaces, e, vec, QuiverRepHom(H._domain, H._codomain, vec))

\* one row per generator in the list g of spaces[t]
RowsOf(H, spaces, e, g) ==
    Collect([i \in 1..Len(g) |-> LeftModuleRow(H, spaces, e, g[i])])

\* maps[e_op] for edge number n, e = (s, t, label)
LeftModuleMap(H, spaces, n) ==
    RowsOf(H, spaces, Edges(H._quiver)[n], SpaceGens(spaces[Edges(H._quiver)[n][2]]))

\* the block "Create the maps"
LeftModuleMaps(H, spaces) ==
    Collect([n \in 1..Len(Edges(H._quiver)) |-> LeftModuleMap(H, spaces, n)])

\* [QuiverRepHom(domain, codomain, vec) for vec in the list g]
HomsOf(H, g) ==
    CollectPlain([i \in 1..Len(g) |-> QuiverRepHom(H._domain, H._codomain, g[i])])

\* basis_dict listing gens() of the hom space at every vertex
BasisDictOfGens(H, spaces) ==
    Collect([v \in 1..Len(Vertices(H._quiver)) |-> Gens(H)])

\* basis_dict[v] = [QuiverRepHom(domain, codomain, vec) for vec in spaces[v].gens()]
BasisDict(H, spaces) ==
    Collect([v \in 1..Len(Vertices(H._quiver)) |-> HomsOf(H, SpaceGens(spaces[v]))])

\* QuiverRep(base, quiver.reverse(), spaces, maps): the representation of
\* the reversed quiver, map number n on the reverse of edge number n
ReversedRep(H, spaces, maps) ==
    [_base_ring |-> H._base,
     edges      |-> ReverseEdges(H._quiver),
     _spaces    |-> [v \in 1..Len(spaces) |-> SpaceDimension(spaces[v], H._base)],
     _maps      |-> maps]

\* left_module with the check of the codomain after the spaces and maps
LeftModuleStepsLate(H, basis) ==
    IF ~H._codomain.left
    THEN <<"spaces", "maps", "check", "raise">>
    ELSE <<"spaces", "maps", "check", "return">>

\* the blocks of left_module(basis) in the order they run: the check of
\* the codomain, then the spaces, the maps and the return
LeftModuleSteps(H, basis) ==
    IF ~H._codomain.left
    THEN <<"check", "raise">>
    ELSE <<"check", "spaces", "maps", "return">>

\* the return statement
LeftModuleReturn(H, basis, steps, rep, bd) ==
    IF ~basis
    THEN [steps |-> steps, basis |-> basis, edges |-> ReverseEdges(H._quiver), rep |-> rep]
    ELSE IF IsError(bd) THEN bd
    ELSE [steps |-> steps, basis |-> basis, edges |-> ReverseEdges(H._quiver), rep |-> rep,
          basis_dict |-> bd.list]

LeftModuleAfterMaps(H, basis, steps, spaces, mp) ==
    IF IsError(mp) THEN mp
    ELSE LeftModuleReturn(H, basis, steps, ReversedRep(H, spaces, mp.list),
                          BasisDict(H, spaces))

LeftModuleAfterSpaces(H, basis, steps, sp) ==
    IF IsError(sp) THEN sp
    ELSE LeftModuleAfterMaps(H, basis, steps, sp.spaces, LeftModuleMaps(H, sp.spaces))

LeftModuleAfterCheck(H, basis, steps) ==
    IF steps[Len(steps)] = "raise"
    THEN [exc |-> "ValueError", msg |-> "The codomain must be a left module.",
          steps |-> steps]
    ELSE LeftModuleAfterSpaces(H, basis, steps, LeftModuleSpaces(H))

\* left_module(basis)
LeftModule(H, basis) == LeftModuleAfterCheck(H, basis, LeftModuleSteps(H, basis))

---------------------------------------------------------------------------
(* QuiverHomSpaceFactory: UniqueFactory calls create_key, looks the key up *)
(* in its cache and calls create_object for a key it does not hold.        *)

\* domain._factory_data[2]: the key of a representation; QuiverRep.get_object
\* gives back the one representation with that key
RepKey(M) == M
GetObject(key) == key

\* create_key with the base rings checked before the quivers
CreateKeyRingFirst(domain, codomain) ==
    IF domain._base_ring # codomain._base_ring
    THEN ValueError("The base rings of the domain and codomain must be identical.")
    ELSE IF domain._quiver # codomain._quiver
    THEN ValueError("The quivers of the domain and codomain must be identical.")
    ELSE [domain |-> RepKey(domain), codomain |-> RepKey(codomain)]

\* create_key whose key leaves out the codomain
CreateKeyDomainOnly(domain, codomain) ==
    IF domain._quiver # codomain._quiver
    THEN ValueError("The quivers of the domain and codomain must be identical.")
    ELSE IF domain._base_ring # codomain._base_ring
    THEN ValueError("The base rings of the domain and codomain must be identical.")
    ELSE [domain |-> RepKey(domain), codomain |-> RepKey(domain)]

\* create_key(domain, codomain)
CreateKey(domain, codomain) ==
    IF domain._quiver # codomain._quiver
    THEN ValueError("The quivers of the domain and codomain must be identical.")
    ELSE IF domain._base_ring # codomain._base_ring
    THEN ValueError("The base rings of the domain and codomain must be identical.")
    ELSE [domain |-> RepKey(domain), codomain |-> RepKey(codomain)]

\* create_object(version, key)
CreateObject(key) == HomSpaceInit(GetObject(key.domain), GetObject(key.codomain))

---------------------------------------------------------------------------
(* The state: the two representations the caller holds, the cache of the   *)
(* factory (key -> object), the hom spaces built so far, the calls made    *)
(* and the last operation with its result.                                 *)

\* the representations the constructor is run on
Wide == UNION {RepsOver(q, p, FALSE) : q \in Quivers, p \in Rings}

\* the representations the methods are called on: the loop over GF(3) and
\* the parallel edges over GF(2), spaces of dimension at most 1
Universe ==
    {M \in RepsOver("L", 3, FALSE) \cup RepsOver("K", 2, FALSE) :
        \A v \in 1..Len(Vertices(M._quiver)) : M._spaces[v] <= 1}

\* the representations of the factory scenarios: both quivers, both rings,
\* right and left modules
Pool ==
    {M \in UNION {RepsOver(q, p, FALSE) : q \in {"L", "K"}, p \in Rings} :
        /\ \A v \in 1..Len(Vertices(M._quiver)) : M._spaces[v] = 1
        /\ \A n \in 1..Len(Edges(M._quiver)) : M._maps[n] = << <<1>> >>}
    \cup {Projective("K", 3, 1)}

\* the representations with a basis of paths: the projectives of "A" over
\* both rings, the free module of "A" and the projectives of "K" over GF(2)
PathPool ==
    {Projective("A", p, v) : p \in Rings, v \in {1, 2}}
        \cup {FreeModule("A", 2), Projective("K", 2, 1), Projective("K", 2, 2)}

NoOp == [op |-> "none"]

Result(op, h, arg, val) == [op |-> op, h |-> h, arg |-> arg, val |-> val]

InitState ==
    /\ cache = << >>
    /\ objs = << >>
    /\ calls = << >>
    /\ last = NoOp

Init ==
    /\ dom \in Universe
    /\ cod \in {N \in Universe : N._quiver = dom._quiver /\ N._base_ring = dom._base_ring}
    /\ InitState

InitWide ==
    /\ dom \in Wide
    /\ cod \in {N \in Wide : N._quiver = dom._quiver /\ N._base_ring = dom._base_ring}
    /\ InitState

InitFactory ==
    /\ dom \in Pool
    /\ cod \in Pool
    /\ InitState

InitPath ==
    /\ dom \in PathPool
    /\ cod \in {N \in PathPool : N._quiver = dom._quiver /\ N._base_ring = dom._base_ring}
    /\ InitState

\* QuiverHomSpace(d, c)
Call(d, c) ==
    /\ Len(calls) < MaxCalls
    /\ LET key == CreateKey(d, c)
       IN  IF IsError(key)
           THEN /\ calls' = Append(calls, [via |-> "factory", args |-> <<d, c>>,
                                           val |-> key, built |-> FALSE])
                /\ last' = Result("call", 0, <<d, c>>, key)
                /\ UNCHANGED <<cache, objs>>
           ELSE IF key \in DOMAIN cache
           THEN /\ calls' = Append(calls, [via |-> "factory", args |-> <<d, c>>,
                                           val |-> [id |-> cache[key]], built |-> FALSE])
                /\ last' = Result("call", cache[key], <<d, c>>, [id |-> cache[key]])
                /\ UNCHANGED <<cache, objs>>
           ELSE LET obj == CreateObject(key)
                    id  == Len(objs) + 1
                IN  IF IsError(obj)
                    THEN /\ calls' = Append(calls, [via |-> "factory", args |-> <<d, c>>,
                                                    val |-> obj, built |-> FALSE])
                         /\ last' = Result("call", 0, <<d, c>>, obj)
                         /\ UNCHANGED <<cache, objs>>
                    ELSE /\ objs' = Append(objs, obj)
                         /\ cache' = (key :> id) @@ cache
                         /\ calls' = Append(calls, [via |-> "factory", args |-> <<d, c>>,
                                                    val |-> [id |-> id], built |-> TRUE])
                         /\ last' = Result("call", id, <<d, c>>, [id |-> id])
    /\ UNCHANGED <<dom, cod>>

\* QuiverHomSpace_generic(d, c): the class called directly
Construct(d, c) ==
    /\ Len(calls) < MaxCalls
    /\ LET obj == HomSpaceInit(d, c)
           id  == Len(objs) + 1
       IN  IF IsError(obj)
           THEN /\ calls' = Append(calls, [via |-> "class", args |-> <<d, c>>,
                                           val |-> obj, built |-> FALSE])
                /\ last' = Result("construct", 0, <<d, c>>, obj)
                /\ UNCHANGED objs
           ELSE /\ objs' = Append(objs, obj)
                /\ calls' = Append(calls, [via |-> "class", args |-> <<d, c>>,
                                           val |-> [id |-> id], built |-> TRUE])
                /\ last' = Result("construct", id, <<d, c>>, [id |-> id])
    /\ UNCHANGED <<dom, cod, cache>>

\* the pairs of representations of the caller that a QuiverRepHom can be
\* built between
HomPairs ==
    {pr \in {dom, cod} \X {dom, cod} :
        pr[1]._quiver = pr[2]._quiver /\ pr[1]._base_ring = pr[2]._base_ring}

\* the dictionaries a caller passes: the empty one and the full ones
DictInputs(d, c) == {EmptyDict} \cup Families(d, c)

\* the QuiverRepHom objects a caller can hold
Elements ==
    {m \in UNION {{QuiverRepHomDict(pr[1], pr[2], maps) : maps \in Families(pr[1], pr[2])}
                  : pr \in HomPairs} : ~IsError(m)}

\* a method call: its result, and self as the method leaves it
Method(op, h, arg, val) ==
    /\ last' = Result(op, h, arg, val)
    /\ objs' = [objs EXCEPT ![h] = SelfAfter(op, objs[h], arg)]
    /\ UNCHANGED <<dom, cod, cache, calls>>

CallDomCod == Call(dom, cod)

CallAny == \E d \in {dom, cod}, c \in {dom, cod} : Call(d, c)

ConstructAny == \E d \in {dom, cod}, c \in {dom, cod} : Construct(d, c)

DoDimension == \E h \in 1..Len(objs) : Method("dimension", h, << >>, Dimension(objs[h]))

DoGens == \E h \in 1..Len(objs) : Method("gens", h, << >>, Gens(objs[h]))

DoCoordinates ==
    \E h \in 1..Len(objs), f \in Elements :
        Method("coordinates", h, f, Coordinates(objs[h], f))

DoContains ==
    \E h \in 1..Len(objs), m \in Elements \cup {Zero} :
        Method("contains", h, m, Contains(objs[h], m))

DoElementConstructor ==
    \E h \in 1..Len(objs) :
        \E data \in {None, Zero}
                    \cup {Dict(maps) : maps \in DictInputs(objs[h]._domain, objs[h]._codomain)} :
            Method("element", h, data, ElementConstructor(objs[h], data))

\* hom() is hom(maps) with the default argument, the empty dictionary
DoHom ==
    \E h \in 1..Len(objs) :
        \E arg \in {NoArgument}
                   \cup {Dict(maps) : maps \in DictInputs(objs[h]._domain, objs[h]._codomain)} :
            Method("hom", h, arg, Hom(objs[h], arg))

DoAnElement == \E h \in 1..Len(objs) : Method("an_element", h, << >>, AnElement(objs[h]))

DoIdentity == \E h \in 1..Len(objs) : Method("identity", h, << >>, Identity(objs[h]))

DoLeftModule ==
    \E h \in 1..Len(objs), basis \in BOOLEAN :
        Method("left_module", h, basis, LeftModule(objs[h], basis))

DoBaseRing == \E h \in 1..Len(objs) : Method("base_ring", h, << >>, BaseRing(objs[h]))

DoQuiver == \E h \in 1..Len(objs) : Method("quiver", h, << >>, Quiver(objs[h]))

DoDomain == \E h \in 1..Len(objs) : Method("domain", h, << >>, Domain(objs[h]))

DoCodomain == \E h \in 1..Len(objs) : Method("codomain", h, << >>, Codomain(objs[h]))

Accessors == DoBaseRing \/ DoQuiver \/ DoDomain \/ DoCodomain

Methods ==
    \/ DoDimension
    \/ DoGens
    \/ DoCoordinates
    \/ DoContains
    \/ DoElementConstructor
    \/ DoHom
    \/ DoAnElement
    \/ DoIdentity

Next == CallDomCod \/ Methods

Spec == Init /\ [][Next]_vars

SpecConstruct == InitWide /\ [][CallDomCod]_vars

NextFactory == CallAny \/ ConstructAny \/ DoDimension \/ DoLeftModule

SpecFactory == InitFactory /\ [][NextFactory]_vars

NextPath == CallDomCod \/ Methods \/ DoLeftModule \/ Accessors

SpecPath == InitPath /\ [][NextPath]_vars

---------------------------------------------------------------------------
(* Properties.                                                             *)

\* a family (f_v) of vertex matrices is a homomorphism from M to N when
\* f_s * N_e = M_e * f_t for every edge e = (s, t, label)
IsHomomorphism(M, N, fam) ==
    \A n \in 1..Len(Edges(M._quiver)) :
        LET s == Edges(M._quiver)[n][1]
            t == Edges(M._quiver)[n][2]
        IN  MatMul(M._base_ring, fam[s], N._maps[n],
                   M._spaces[s], N._spaces[s], N._spaces[t])
              = MatMul(M._base_ring, M._maps[n], fam[t],
                       M._spaces[s], M._spaces[t], N._spaces[t])

\* the space of H is the whole homomorphism space and nothing more
SpaceIsHom(H) ==
    \A fam \in Families(H._domain, H._codomain) :
        (Flatten(fam, H._domain, H._codomain) \in H._space)
            <=> IsHomomorphism(H._domain, H._codomain, fam)

\* C1: for every quiver, every pair of representations M, N over the same
\* field and every family of vertex matrices, the flattened family lies in
\* the kernel the constructor computes if and only if the family commutes
\* with every edge map.
C1_KernelIsHomSpace == \A h \in 1..Len(objs) : SpaceIsHom(objs[h])

\* C1 on the quivers without a loop: parallel edges and cycles of length 2
\* included, the kernel is the homomorphism space.
C1_KernelIsHomSpaceNoLoop ==
    \A h \in 1..Len(objs) : ~HasLoop(objs[h]._quiver) => SpaceIsHom(objs[h])

RECURSIVE Pow(_, _)
Pow(p, d) == IF d = 0 THEN 1 ELSE p * Pow(p, d - 1)

\* the hom space the last operation was called on
LastH == objs[last.h]

\* the vertex matrices of a QuiverRepHom
FamilyOf(m) ==
    [v \in 1..Len(Vertices(m._quiver)) |-> GetMatrix(m._domain, m._codomain, m._vector, v)]

\* a QuiverRepHom object whose maps commute with the edge maps
IsHomObject(m) ==
    /\ IsQuiverRepHom(m)
    /\ IsHomomorphism(m._domain, m._codomain, FamilyOf(m))

\* the QuiverRepHom objects from the domain to the codomain of H that are
\* members of H
Members(H) ==
    {m \in {QuiverRepHom(H._domain, H._codomain, vec) :
               vec \in Vectors(H._base, TotalDim(H._domain, H._codomain))} :
        ~IsError(m) /\ Contains(H, m)}

\* identity() on Hom(M, M) is the identity matrix at every vertex and is a
\* member of H
IdentityIsMember(H, val) ==
    /\ ~IsError(val)
    /\ \A v \in 1..Len(Vertices(H._quiver)) :
          FamilyOf(val)[v] = [i \in 1..H._domain._spaces[v] |->
                                [j \in 1..H._domain._spaces[v] |->
                                    IF i = j THEN 1 ELSE 0]]
    /\ Contains(H, val)

\* C3: on a hom space built with domain and codomain the same
\* representation M, identity() is available, is the identity matrix of size
\* dim(M_v) at every vertex v and is a member of the hom space.
C3_IdentityInSpace ==
    (last.op = "identity" /\ LastH._domain = LastH._codomain)
        => IdentityIsMember(LastH, last.val)

\* C3 on the quivers without a loop.
C3_IdentityInSpaceNoLoop ==
    (last.op = "identity" /\ LastH._domain = LastH._codomain
        /\ ~HasLoop(LastH._quiver))
        => IdentityIsMember(LastH, last.val)

\* gens() is a basis of H made of dimension() homomorphisms that are
\* members of H, and H has q^dimension() members
GensAreBasis(H, val) ==
    /\ ~IsError(val)
    /\ LET g == val.list
           n == TotalDim(H._domain, H._codomain)
           vecs == [i \in 1..Len(g) |-> g[i]._vector]
           coefs == Vectors(H._base, Len(g))
       IN  /\ Len(g) = Dimension(H)
           /\ \A i \in 1..Len(g) : IsHomObject(g[i]) /\ Contains(H, g[i])
           /\ \A c1 \in coefs, c2 \in coefs :
                 LinComb(H._base, c1, vecs, n) = LinComb(H._base, c2, vecs, n) => c1 = c2
           /\ \A m \in Members(H) :
                 \E c \in coefs : LinComb(H._base, c, vecs, n) = m._vector
           /\ Cardinality(Members(H)) = Pow(H._base, Dimension(H))

\* C5: gens() returns exactly dimension() homomorphisms, each a member of
\* the hom space; they are linearly independent and span it, and the hom
\* space over GF(q) has q^dimension() members.
C5_GensBasis == last.op = "gens" => GensAreBasis(LastH, last.val)

\* C5 on the quivers without a loop.
C5_GensBasisNoLoop ==
    (last.op = "gens" /\ ~HasLoop(LastH._quiver)) => GensAreBasis(LastH, last.val)

\* an_element() is a homomorphism from the domain to the codomain of H and
\* a member of H
AnElementIsMember(H, val) ==
    /\ ~IsError(val)
    /\ IsHomObject(val)
    /\ val._domain = H._domain
    /\ val._codomain = H._codomain
    /\ Contains(H, val)

\* C8: for every hom space H, those of dimension 0 included, an_element()
\* returns a homomorphism with the domain and codomain of H that is a
\* member of H.
C8_AnElementInSpace == last.op = "an_element" => AnElementIsMember(LastH, last.val)

\* C8 on the quivers without a loop.
C8_AnElementInSpaceNoLoop ==
    (last.op = "an_element" /\ ~HasLoop(LastH._quiver))
        => AnElementIsMember(LastH, last.val)

\* the sum of c[i] * gens()[i]: the element of Hom(domain, codomain) whose
\* vector is the linear combination of the vectors of the generators
Combination(H, c) ==
    [_quiver |-> H._quiver, _domain |-> H._domain, _codomain |-> H._codomain,
     _vector |-> LinComb(H._base, c, GensVectors(H),
                         TotalDim(H._domain, H._codomain))]

C7_ContainsExactly ==
    last.op = "contains"
        => /\ last.val = TRUE <=>
                 /\ IsQuiverRepHom(last.arg)
                 /\ last.arg._quiver = LastH._quiver
                 /\ last.arg._domain = LastH._domain
                 /\ last.arg._codomain = LastH._codomain
                 /\ last.arg._vector \in LastH._space
           /\ (/\ IsQuiverRepHom(last.arg)
               /\ \/ last.arg._domain # LastH._domain
                  \/ last.arg._codomain # LastH._codomain)
                 => last.val = FALSE

\* a membership test of a homomorphism with another codomain whose vector
\* lies in the space of H
C7_Witness ==
    /\ last.op = "contains"
    /\ IsQuiverRepHom(last.arg)
    /\ last.arg._domain = LastH._domain
    /\ last.arg._codomain # LastH._codomain
    /\ Len(last.arg._vector) = TotalDim(LastH._domain, LastH._codomain)
    /\ Len(last.arg._vector) >= 1
    /\ last.arg._vector \in LastH._space
    /\ last.val = FALSE

\* the calls that pass no data: H(), H(None), H(0), H({}) and hom()
PassesNoData ==
    \/ last.op = "element" /\ last.arg \in {None, Zero, Dict(EmptyDict)}
    \/ last.op = "hom" /\ last.arg = NoArgument

\* C9: the element constructor with no data, None or 0 and hom() with no
\* argument give the homomorphism of the empty dictionary: the zero map,
\* zero at every vertex, which is a member of H for every hom space H.
C9_ZeroMap ==
    PassesNoData
        => /\ ~IsError(last.val)
           /\ last.val = ElementConstructor(LastH, Dict(EmptyDict))
           /\ last.val._domain = LastH._domain
           /\ last.val._codomain = LastH._codomain
           /\ \A v \in 1..Len(Vertices(LastH._quiver)) :
                 FamilyOf(last.val)[v]
                    = ZeroMatrix(LastH._domain._spaces[v], LastH._codomain._spaces[v])
           /\ Contains(LastH, last.val)

\* H(0) on a hom space of dimension at least 1 between different
\* representations
C9_Witness ==
    /\ last.op = "element"
    /\ last.arg = Zero
    /\ LastH._domain # LastH._codomain
    /\ Dimension(LastH) >= 1
    /\ Contains(LastH, last.val)

\* the messages of the two quiver checks
QuiverMessages ==
    {"The quivers of the domain and codomain must be identical.",
     "Representations are not over the same quiver."}

\* the last step built a hom space, through the factory or the class
Constructing == last'.op \in {"call", "construct"} /\ calls' # calls

\* C2: constructing a hom space from a domain and a codomain whose quivers
\* or base rings differ ends in a ValueError and yields no hom space; the
\* cache of the factory is unchanged, and when both differ the error is the
\* one about the quivers.
C2_MismatchRaises ==
    [][Constructing =>
          LET d == last'.arg[1]
              c == last'.arg[2]
          IN  (d._quiver # c._quiver \/ d._base_ring # c._base_ring)
                 => /\ IsError(last'.val)
                    /\ last'.val.exc = "ValueError"
                    /\ cache' = cache
                    /\ objs' = objs
                    /\ (d._quiver # c._quiver => last'.val.msg \in QuiverMessages)]_vars

\* a factory call on representations with different quivers and different
\* base rings, made when the cache holds a hom space
C2_Witness ==
    /\ last.op = "call"
    /\ last.arg[1]._quiver # last.arg[2]._quiver
    /\ last.arg[1]._base_ring # last.arg[2]._base_ring
    /\ IsError(last.val)
    /\ DOMAIN cache # {}

\* the factory calls that returned a hom space
Returned == {i \in 1..Len(calls) : calls[i].via = "factory" /\ ~IsError(calls[i].val)}

\* the key of a call: the keys of its domain and codomain
KeyOf(call) == <<RepKey(call.args[1]), RepKey(call.args[2])>>

\* C4: the factory holds one hom space per key: two calls with equal keys
\* return the identical object and the constructor runs only for the first
\* of them; calls with different keys return different objects.
C4_OnePerKey ==
    \A i \in Returned, j \in Returned :
        i < j =>
            /\ KeyOf(calls[i]) = KeyOf(calls[j])
                  => calls[i].val.id = calls[j].val.id /\ ~calls[j].built
            /\ KeyOf(calls[i]) # KeyOf(calls[j])
                  => calls[i].val.id # calls[j].val.id

\* two factory calls with equal keys: the second returns the object of the
\* first and builds nothing
C4_Witness ==
    /\ Len(calls) = 2
    /\ Returned = {1, 2}
    /\ KeyOf(calls[1]) = KeyOf(calls[2])
    /\ calls[1].val.id = calls[2].val.id
    /\ calls[1].built
    /\ ~calls[2].built
    /\ Len(objs) = 1

\* two factory calls with different keys: two objects
C4_DifferentKeys ==
    /\ Len(calls) = 2
    /\ Returned = {1, 2}
    /\ KeyOf(calls[1]) # KeyOf(calls[2])
    /\ calls[1].val.id # calls[2].val.id

\* C10: left_module() raises ValueError whenever the codomain is not a left
\* module, before any space or map is built, and leaves the hom space as it
\* was.
C10_LeftModuleRaises ==
    [][(last'.op = "left_module" /\ ~objs[last'.h]._codomain.left)
          => /\ IsError(last'.val)
             /\ last'.val.exc = "ValueError"
             /\ \A k \in 1..Len(last'.val.steps) :
                   last'.val.steps[k] \notin {"spaces", "maps"}
             /\ objs' = objs
             /\ cache' = cache]_vars

\* left_module() called on a hom space whose codomain is a right module
C10_Witness ==
    /\ last.op = "left_module"
    /\ ~LastH._codomain.left
    /\ IsError(last.val)

\* the number of variables at the first i vertices: the sum of
\* dim(M_v) * dim(N_v) over them
VariablesBefore(M, N, i) ==
    LET verts == Vertices(M._quiver)
    IN  SumTo([n \in 1..i |-> M._spaces[verts[n]] * N._spaces[verts[n]]], i)

\* the number of equations: the sum of dim(M_s) * dim(N_t) over the edges
\* (s, t, label)
Equations(M, N) ==
    LET edges == Edges(M._quiver)
    IN  SumTo([n \in 1..Len(edges) |-> M._spaces[edges[n][1]] * N._spaces[edges[n][2]]],
              Len(edges))

\* varstart, eqs, the coefficient matrix and eqn as the constructor leaves
\* them for the domain M and the codomain N
CountsAgree(M, N) ==
    LET nv     == Len(Vertices(M._quiver))
        vs     == Varstart(M, N)
        filled == Fill(M, N)
    IN  /\ Len(vs) = nv + 1
        /\ VarstartAt(vs, 0) = 0
        /\ \A i \in 0..nv : VarstartAt(vs, i) = VariablesBefore(M, N, i)
        /\ \A i \in 1..nv : VarstartAt(vs, i - 1) <= VarstartAt(vs, i)
        /\ Eqs(M, N) = Equations(M, N)
        /\ DOMAIN filled.mat = 0..(VariablesBefore(M, N, nv) - 1)
        /\ \A r \in DOMAIN filled.mat : DOMAIN filled.mat[r] = 0..(Equations(M, N) - 1)
        /\ filled.eqn = Equations(M, N)

\* C12: the coefficient matrix has one row per variable and one column per
\* equation: varstart[0] = 0, varstart[i] is the number of variables at the
\* vertices before the i-th one (so varstart is non-decreasing and its last
\* entry is the number of variables), eqs is the sum of dim(M_s) * dim(N_t)
\* over the edges, and eqn equals eqs when the fill loop ends.
C12_Counts ==
    \A h \in 1..Len(objs) : CountsAgree(objs[h]._domain, objs[h]._codomain)

\* a hom space on two vertices with variables at both of them and at least
\* two equations
C12_Witness ==
    \E h \in 1..Len(objs) :
        LET M  == objs[h]._domain
            N  == objs[h]._codomain
            vs == Varstart(M, N)
        IN  /\ Len(vs) = 3
            /\ 0 < VarstartAt(vs, 1)
            /\ VarstartAt(vs, 1) < VarstartAt(vs, 2)
            /\ Fill(M, N).eqn >= 2

\* the shape of the value of left_module(True) on H: a representation of
\* the reversed quiver and a dictionary with, at every vertex, as many
\* members of H as the dimension of the representation there
IsLeftModuleWithBasis(H, val) ==
    /\ ~IsError(val)
    /\ LET M     == val.rep
           bd    == val.basis_dict
           edges == Edges(H._quiver)
           nv    == Len(Vertices(H._quiver))
       IN  /\ M._base_ring = H._base
           /\ DOMAIN M._spaces = 1..nv
           /\ Len(M.edges) = Len(edges)
           /\ DOMAIN M._maps = 1..Len(edges)
           /\ \A n \in 1..Len(edges) :
                 /\ M.edges[n] = <<edges[n][2], edges[n][1], edges[n][3]>>
                 /\ Len(M._maps[n]) = M._spaces[edges[n][2]]
                 /\ \A i \in 1..Len(M._maps[n]) :
                       /\ Len(M._maps[n][i]) = M._spaces[edges[n][1]]
                       /\ \A j \in 1..Len(M._maps[n][i]) : M._maps[n][i][j] \in F(H._base)
           /\ DOMAIN bd = 1..nv
           /\ \A v \in 1..nv :
                 /\ Len(bd[v]) = M._spaces[v]
                 /\ \A i \in 1..Len(bd[v]) : Contains(H, bd[v][i])

\* C11: on a hom space whose codomain is a left module, left_module(True)
\* returns a representation M of the reversed quiver, the map of every edge
\* (s, t, label) on the edge (t, s, label), and a dictionary with one entry
\* per vertex v whose length is the dimension of M at v and whose
\* homomorphisms are members of the hom space.
C11_LeftModuleBasis ==
    (last.op = "left_module" /\ last.arg = TRUE /\ LastH._codomain.left)
        => IsLeftModuleWithBasis(LastH, last.val)

\* left_module(True) giving a representation with a nonzero space at both
\* vertices and a nonzero map between them
C11_Witness ==
    /\ last.op = "left_module"
    /\ last.arg = TRUE
    /\ ~IsError(last.val)
    /\ \A v \in DOMAIN last.val.basis_dict : Len(last.val.basis_dict[v]) >= 1
    /\ \E n \in DOMAIN last.val.rep._maps :
          \E i \in DOMAIN last.val.rep._maps[n] :
             \E j \in DOMAIN last.val.rep._maps[n][i] : last.val.rep._maps[n][i][j] # 0

\* the call that built hom space number h
Construction(h) == calls[CHOOSE i \in 1..Len(calls) : calls[i].built /\ calls[i].val.id = h]

\* hom space number h is as its constructor left it
AsConstructed(h) ==
    LET d == Construction(h).args[1]
        c == Construction(h).args[2]
    IN  /\ Domain(objs[h]) = d
        /\ Codomain(objs[h]) = c
        /\ Quiver(objs[h]) = d._quiver
        /\ BaseRing(objs[h]) = d._base_ring
        /\ BaseRing(objs[h]) = c._base_ring
        /\ Dimension(objs[h]) = Dimension(HomSpaceInit(d, c))

\* what the accessors and dimension() return is what the constructor was
\* given and computed
ReturnsAsConstructed ==
    LET d == Construction(last.h).args[1]
        c == Construction(last.h).args[2]
    IN  /\ last.op = "domain" => last.val = d
        /\ last.op = "codomain" => last.val = c
        /\ last.op = "quiver" => last.val = d._quiver
        /\ last.op = "base_ring" => last.val = c._base_ring
        /\ last.op = "dimension" => last.val = Dimension(HomSpaceInit(d, c))

\* C13: a hom space is immutable: after any sequence of dimension, gens,
\* coordinates, hom, an_element, membership tests, left_module and the
\* accessors, domain(), codomain() and quiver() return the objects given at
\* construction, base_ring() the common base ring and dimension() the value
\* it had after construction.
C13_Immutable ==
    /\ \A h \in 1..Len(objs) : AsConstructed(h)
    /\ last.op \in {"domain", "codomain", "quiver", "base_ring", "dimension"}
          => ReturnsAsConstructed

\* a left_module() call that returned, on a hom space of dimension at
\* least 1 that is as its constructor left it
C13_Witness ==
    /\ last.op = "left_module"
    /\ ~IsError(last.val)
    /\ Dimension(LastH) >= 1
    /\ AsConstructed(last.h)

=============================================================================
